---------------------------- MODULE Spec2Model ----------------------------
(***************************************************************************)
(* A model of Home_work_DS_2.py: the address book (Field validators,       *)
(* Record, AddressBook), the command handlers wrapped by input_error, and  *)
(* the interactive loop of main.                                           *)
(*                                                                         *)
(* Python strings are modelled as sequences of characters; a character is  *)
(* a one-character TLA+ string, except that a non-ASCII character is named *)
(* by its code point ("U+0663").  Messages produced by the program are     *)
(* TLA+ strings.  A date is a record [year, month, day].                   *)
(***************************************************************************)
EXTENDS Integers, Sequences, FiniteSets, TLC

VARIABLES
    book,   \* AddressBook.data: the entries [key, rec] in dict insertion order
    prev,   \* book as it was before the last operation
    op,     \* the last operation: [name, args]
    out,    \* what the last operation returned (or printed)
    pc,     \* main: "prompt", "done" (after close/exit) or "crashed"
    today   \* datetime.now().date() as read by the last get_upcoming_birthdays

vars == <<book, prev, op, out, pc, today>>

(***************************************************************************)
(* Characters and strings                                                  *)
(***************************************************************************)

AsciiDigits == {"0", "1", "2", "3", "4", "5", "6", "7", "8", "9"}

\* Unicode decimal digits (category Nd) beyond ASCII that the inputs use:
\* ARABIC-INDIC DIGIT THREE.  str.isdigit, the regex class \d and int() accept it.
OtherDecimalDigits == {"U+0663"}

\* Characters with Numeric_Type=Digit that are not decimal: SUPERSCRIPT TWO.
\* str.isdigit accepts it, \d and int() do not.
NonDecimalDigits == {"U+00B2"}

DecimalDigits == AsciiDigits \cup OtherDecimalDigits

Whitespace == {" ", "\t"}

DigitValue(c) ==
    CASE c = "0" -> 0 [] c = "1" -> 1 [] c = "2" -> 2 [] c = "3" -> 3
      [] c = "4" -> 4 [] c = "5" -> 5 [] c = "6" -> 6 [] c = "7" -> 7
      [] c = "8" -> 8 [] c = "9" -> 9 [] c = "U+0663" -> 3

\* str.isdigit(): every character is a digit and there is at least one.
IsDigit(s) ==
    /\ Len(s) > 0
    /\ \A i \in 1..Len(s) : s[i] \in DecimalDigits \cup NonDecimalDigits

\* str.lower() on the letters the inputs use.
LowerChar(c) ==
    CASE c = "A" -> "a" [] c = "B" -> "b" [] c = "C" -> "c" [] c = "D" -> "d"
      [] c = "E" -> "e" [] c = "H" -> "h" [] c = "I" -> "i" [] c = "L" -> "l"
      [] c = "O" -> "o" [] c = "T" -> "t" [] c = "X" -> "x" [] OTHER -> c

Lower(s) == [i \in 1..Len(s) |-> LowerChar(s[i])]

RECURSIVE Str(_)
\* The characters of s as one TLA+ string (for messages and renderings).
Str(s) == IF s = <<>> THEN "" ELSE s[1] \o Str(Tail(s))

RECURSIVE TokenEnd(_, _)
\* The last position of the run of non-whitespace characters that holds position i.
TokenEnd(s, i) ==
    IF i = Len(s) THEN i
    ELSE IF s[i + 1] \in Whitespace THEN i
    ELSE TokenEnd(s, i + 1)

RECURSIVE SplitFrom(_, _)
SplitFrom(s, i) ==
    IF i > Len(s) THEN <<>>
    ELSE IF s[i] \in Whitespace THEN SplitFrom(s, i + 1)
    ELSE <<SubSeq(s, i, TokenEnd(s, i))>> \o SplitFrom(s, TokenEnd(s, i) + 1)

\* str.split(): the maximal runs of non-whitespace characters, in order.
split(s) == SplitFrom(s, 1)

(***************************************************************************)
(* Outcomes: a value or a raised exception                                 *)
(***************************************************************************)

Ok(v) == [exc |-> "none", msg |-> "", val |-> v]

Raise(kind, text) == [exc |-> kind, msg |-> text, val |-> <<>>]

(***************************************************************************)
(* datetime.date                                                           *)
(***************************************************************************)

MINYEAR == 1

MAXYEAR == 9999

Date(y, m, d) == [year |-> y, month |-> m, day |-> d]

IsLeap(y) == y % 4 = 0 /\ (y % 100 # 0 \/ y % 400 = 0)

DaysInMonth(y, m) ==
    IF m = 2 THEN (IF IsLeap(y) THEN 29 ELSE 28)
    ELSE IF m \in {4, 6, 9, 11} THEN 30 ELSE 31

DaysBeforeYear(y) ==
    (y - 1) * 365 + (y - 1) \div 4 - (y - 1) \div 100 + (y - 1) \div 400

RECURSIVE DaysBeforeMonth(_, _)
DaysBeforeMonth(y, m) ==
    IF m = 1 THEN 0 ELSE DaysBeforeMonth(y, m - 1) + DaysInMonth(y, m - 1)

\* date.toordinal(): 1 for 0001-01-01.
ToOrdinal(d) == DaysBeforeYear(d.year) + DaysBeforeMonth(d.year, d.month) + d.day

\* date.fromordinal(n), for an ordinal within the supported range.
FromOrdinal(n) ==
    LET y == CHOOSE yy \in ((n - 1) \div 366 + 1)..((n - 1) \div 365 + 1) :
                 DaysBeforeYear(yy) < n /\ n <= DaysBeforeYear(yy + 1)
        r == n - DaysBeforeYear(y)
        m == CHOOSE mm \in 1..12 :
                 DaysBeforeMonth(y, mm) < r /\ r <= DaysBeforeMonth(y, mm) + DaysInMonth(y, mm)
    IN  Date(y, m, r - DaysBeforeMonth(y, m))

\* date.weekday(): Monday is 0, Sunday is 6.
Weekday(d) == (ToOrdinal(d) + 6) % 7

\* date.__lt__
DateLess(a, b) == ToOrdinal(a) < ToOrdinal(b)

\* (a - b).days
DaysBetween(a, b) == ToOrdinal(a) - ToOrdinal(b)

\* date + timedelta(days=n): OverflowError outside MINYEAR..MAXYEAR.
AddDays(d, n) ==
    IF ToOrdinal(d) + n < 1 \/ ToOrdinal(d) + n > DaysBeforeYear(MAXYEAR + 1)
    THEN Raise("OverflowError", "date value out of range")
    ELSE Ok(FromOrdinal(ToOrdinal(d) + n))

\* date.replace(year=y): ValueError when the day does not exist in that year.
ReplaceYear(d, y) ==
    IF y < MINYEAR \/ y > MAXYEAR
    THEN Raise("ValueError", "year " \o ToString(y) \o " is out of range")
    ELSE IF d.day > DaysInMonth(y, d.month)
         THEN Raise("ValueError", "day is out of range for month")
         ELSE Ok(Date(y, d.month, d.day))

Pad(n, width) ==
    LET s == ToString(n)
    IN  IF n < 10 /\ width >= 2
        THEN (IF width = 4 THEN "000" ELSE "0") \o s
        ELSE IF n < 100 /\ width = 4 THEN "00" \o s
        ELSE IF n < 1000 /\ width = 4 THEN "0" \o s
        ELSE s

\* date.__str__: ISO format YYYY-MM-DD.
DateStr(d) == Pad(d.year, 4) \o "-" \o Pad(d.month, 2) \o "-" \o Pad(d.day, 2)

(***************************************************************************)
(* Field validators                                                        *)
(***************************************************************************)

PhoneLen == 10

BirthdayLen == 10

\* Phone.__init__: the stored value, or ValueError.
Phone(phone) ==
    IF ~IsDigit(phone) \/ Len(phone) # PhoneLen
    THEN Raise("ValueError", "Phone number must be 10 digits long!")
    ELSE Ok(phone)

NonZeroAscii == AsciiDigits \ {"0"}

\* datetime.strptime(s, "%d.%m.%Y").date() for a string of ten characters.  The
\* format compiles to (3[0-1]|[1-2]\d|0[1-9]|[1-9]| [1-9])\.(1[0-2]|0[1-9]|[1-9])\.(\d\d\d\d)
\* and all of the string must be consumed, so day and month take two characters
\* each; the date must then exist (year 0 and 31.02 do not).
Strptime(s) ==
    LET dayOk == \/ s[1] = "3" /\ s[2] \in {"0", "1"}
                 \/ s[1] \in {"1", "2"} /\ s[2] \in DecimalDigits
                 \/ s[1] \in {"0", " "} /\ s[2] \in NonZeroAscii
        monthOk == \/ s[4] = "1" /\ s[5] \in {"0", "1", "2"}
                   \/ s[4] = "0" /\ s[5] \in NonZeroAscii
        yearOk == \A i \in 7..10 : s[i] \in DecimalDigits
        d == (IF s[1] = " " THEN 0 ELSE DigitValue(s[1])) * 10 + DigitValue(s[2])
        m == DigitValue(s[4]) * 10 + DigitValue(s[5])
        y == DigitValue(s[7]) * 1000 + DigitValue(s[8]) * 100
               + DigitValue(s[9]) * 10 + DigitValue(s[10])
    IN  IF ~(dayOk /\ s[3] = "." /\ monthOk /\ s[6] = "." /\ yearOk)
        THEN Raise("ValueError", "time data does not match format '%d.%m.%Y'")
        ELSE IF y < MINYEAR \/ d > DaysInMonth(y, m)
             THEN Raise("ValueError", "day is out of range for month")
             ELSE Ok(Date(y, m, d))

\* Birthday.__init__: every ValueError is re-raised with the fixed message.
Birthday(birthday_date_s) ==
    IF Len(birthday_date_s) # BirthdayLen
    THEN Raise("ValueError", "Invalid date format. Use DD.MM.YYYY")
    ELSE IF Strptime(birthday_date_s).exc = "ValueError"
         THEN Raise("ValueError", "Invalid date format. Use DD.MM.YYYY")
         ELSE Ok(Strptime(birthday_date_s).val)

(***************************************************************************)
(* Record: [name, phones, birthday]; phones holds the Phone values in list *)
(* order, birthday is <<>> (None) or <<date>>.  A mutating method returns  *)
(* [rec, exc, msg]: the record as the call leaves it and what it raised.   *)
(***************************************************************************)

Record(name) == [name |-> name, phones |-> <<>>, birthday |-> <<>>]

Done(rec) == [rec |-> rec, exc |-> "none", msg |-> ""]

Failed(rec, r) == [rec |-> rec, exc |-> r.exc, msg |-> r.msg]

\* Record.add_birthday
record_add_birthday(rec, birthday_date_s) ==
    LET b == Birthday(birthday_date_s)
    IN  IF b.exc # "none" THEN Failed(rec, b)
        ELSE Done([rec EXCEPT !.birthday = <<b.val>>])

\* add_phone inserting at the front of the list instead of appending.
add_phone_front(rec, phone) ==
    LET p == Phone(phone)
    IN  IF p.exc # "none" THEN Failed(rec, p)
        ELSE Done([rec EXCEPT !.phones = <<p.val>> \o @])

\* Record.add_phone
add_phone(rec, phone) ==
    LET p == Phone(phone)
    IN  IF p.exc # "none" THEN Failed(rec, p)
        ELSE Done([rec EXCEPT !.phones = Append(@, p.val)])

\* Record.find_phone: the position of the first Phone whose value is phone, 0 for None.
find_phone(rec, phone) ==
    IF \E i \in 1..Len(rec.phones) : rec.phones[i] = phone
    THEN CHOOSE i \in 1..Len(rec.phones) :
             /\ rec.phones[i] = phone
             /\ \A j \in 1..(i - 1) : rec.phones[j] # phone
    ELSE 0

RemoveAt(s, i) == SubSeq(s, 1, i - 1) \o SubSeq(s, i + 1, Len(s))

\* Record.remove_phone: list.remove of the object find_phone returned.
remove_phone(rec, phone) ==
    LET i == find_phone(rec, phone)
    IN  IF i # 0 THEN [rec EXCEPT !.phones = RemoveAt(@, i)] ELSE rec

\* edit_phone overwriting the old phone where it stands.
edit_phone_in_place(rec, old_phone, new_phone) ==
    IF find_phone(rec, old_phone) # 0
    THEN (IF Phone(new_phone).exc # "none" THEN Failed(rec, Phone(new_phone))
          ELSE Done([rec EXCEPT !.phones[find_phone(rec, old_phone)] = new_phone]))
    ELSE Failed(rec, Raise("ValueError", "Phone number is incorrect"))

\* Record.edit_phone: the old phone is removed before the new one is validated.
edit_phone(rec, old_phone, new_phone) ==
    IF find_phone(rec, old_phone) # 0
    THEN add_phone(remove_phone(rec, old_phone), new_phone)
    ELSE Failed(rec, Raise("ValueError", "Phone number is incorrect"))

RECURSIVE Join(_, _)
\* sep.join(parts) for TLA+ strings.
Join(parts, sep) ==
    IF parts = <<>> THEN ""
    ELSE IF Len(parts) = 1 THEN parts[1]
    ELSE parts[1] \o sep \o Join(Tail(parts), sep)

BirthdayStr(rec) == IF rec.birthday = <<>> THEN "None" ELSE DateStr(rec.birthday[1])

\* Record.__str__
RecordStr(rec) ==
    "Contact name: " \o Str(rec.name) \o ", phones: "
        \o Join([i \in 1..Len(rec.phones) |-> Str(rec.phones[i])], "; ")
        \o ", birthday: " \o BirthdayStr(rec)

(***************************************************************************)
(* AddressBook                                                             *)
(***************************************************************************)

\* The position of key k in the dict, 0 when absent.
KeyIndex(b, k) ==
    IF \E i \in 1..Len(b) : b[i].key = k
    THEN CHOOSE i \in 1..Len(b) : b[i].key = k
    ELSE 0

\* self.data[k] = rec: an existing key keeps its position.
SetItem(b, k, rec) ==
    IF KeyIndex(b, k) # 0
    THEN [b EXCEPT ![KeyIndex(b, k)] = [key |-> k, rec |-> rec]]
    ELSE Append(b, [key |-> k, rec |-> rec])

\* add_record filing the record under its name in lower case.
add_record_lower(b, record) == SetItem(b, Lower(record.name), record)

\* AddressBook.add_record
add_record(b, record) == SetItem(b, record.name, record)

\* AddressBook.find: the position of the Record found, 0 for None.
find(b, name) == KeyIndex(b, name)

\* AddressBook.delete
delete(b, name) ==
    IF KeyIndex(b, name) # 0 THEN RemoveAt(b, KeyIndex(b, name)) ELSE b

\* find_next_weekday adding the week only when the target weekday lies behind.
find_next_weekday_or_same(start_date, weekday) ==
    LET days_ahead == weekday - Weekday(start_date)
    IN  AddDays(start_date, IF days_ahead < 0 THEN days_ahead + 7 ELSE days_ahead)

\* AddressBook.find_next_weekday
find_next_weekday(start_date, weekday) ==
    LET days_ahead == weekday - Weekday(start_date)
    IN  AddDays(start_date, IF days_ahead <= 0 THEN days_ahead + 7 ELSE days_ahead)

\* AddressBook.adjust_for_weekend
adjust_for_weekend(birthday) ==
    IF Weekday(birthday) >= 5 THEN find_next_weekday(birthday, 0) ELSE Ok(birthday)

\* One pass of the loop body of get_upcoming_birthdays for a record with a
\* birthday: Ok(<<>>) outside the window, Ok(<<date>>) inside it, or what it raised.
UpcomingOf(bday, now, days) ==
    LET r1 == ReplaceYear(bday, now.year)
        r2 == IF r1.exc = "none" /\ DateLess(r1.val, now)
              THEN ReplaceYear(r1.val, now.year + 1)
              ELSE r1
    IN  IF r2.exc # "none" THEN r2
        ELSE IF 0 <= DaysBetween(r2.val, now) /\ DaysBetween(r2.val, now) <= days
             THEN (IF adjust_for_weekend(r2.val).exc # "none"
                   THEN adjust_for_weekend(r2.val)
                   ELSE Ok(<<adjust_for_weekend(r2.val).val>>))
             ELSE Ok(<<>>)

RECURSIVE UpcomingFrom(_, _, _, _, _)
UpcomingFrom(b, i, acc, now, days) ==
    IF i > Len(b) THEN Ok(acc)
    ELSE IF b[i].rec.birthday = <<>> THEN UpcomingFrom(b, i + 1, acc, now, days)
    ELSE LET r == UpcomingOf(b[i].rec.birthday[1], now, days)
         IN  IF r.exc # "none" THEN r
             ELSE UpcomingFrom(b, i + 1, acc \o r.val, now, days)

\* AddressBook.get_upcoming_birthdays, with now the value of datetime.now().date().
get_upcoming_birthdays(b, days, now) == UpcomingFrom(b, 1, <<>>, now, days)

\* AddressBook.__str__
BookStr(b) == Join([i \in 1..Len(b) |-> RecordStr(b[i].rec)], "\n")

(***************************************************************************)
(* Command handlers.  A handler body yields [book, exc, msg, val]: the     *)
(* book as the call leaves it and what it returned (val, as printed) or    *)
(* raised.  input_error turns that into [book, out, exc].                  *)
(***************************************************************************)

Returned(b, text) == [book |-> b, exc |-> "none", msg |-> "", val |-> text]

Raised(b, r) == [book |-> b, exc |-> r.exc, msg |-> r.msg, val |-> ""]

\* The record at position i replaced by rec: a method call on the object found.
SetRec(b, i, rec) == [b EXCEPT ![i].rec = rec]

\* name, phone, *_ = args
UnpackAtLeast(args, n) ==
    IF Len(args) < n
    THEN Raise("ValueError", "not enough values to unpack (expected at least "
                   \o ToString(n) \o ", got " \o ToString(Len(args)) \o ")")
    ELSE Ok(args)

\* a, b, c = args
UnpackExact(args, n) ==
    IF Len(args) < n
    THEN Raise("ValueError", "not enough values to unpack (expected "
                   \o ToString(n) \o ", got " \o ToString(Len(args)) \o ")")
    ELSE IF Len(args) > n
         THEN Raise("ValueError", "too many values to unpack (expected "
                        \o ToString(n) \o ")")
         ELSE Ok(args)

\* input_error: the decorator's inner function applied to a handler body's outcome.
input_error(r) ==
    CASE r.exc = "none"       -> [book |-> r.book, out |-> r.val, exc |-> "none"]
      [] r.exc = "ValueError" -> [book |-> r.book, out |-> r.msg, exc |-> "none"]
      [] r.exc = "IndexError" ->
             [book |-> r.book, out |-> "Give me phone and name please", exc |-> "none"]
      [] r.exc = "KeyError"   ->
             [book |-> r.book, out |-> "Enter user name", exc |-> "none"]
      [] OTHER                -> [book |-> r.book, out |-> r.msg, exc |-> r.exc]

\* add_contact, lines 125-134.  The new Record goes in before its phone is
\* validated; a new key is the dict's last entry.
add_contact_body(args, b) ==
    IF UnpackAtLeast(args, 2).exc # "none" THEN Raised(b, UnpackAtLeast(args, 2))
    ELSE LET name == args[1]
             found == find(b, name) # 0
             b1 == IF found THEN b ELSE add_record(b, Record(name))
             i == IF found THEN find(b, name) ELSE Len(b1)
             message == IF found THEN "Contact updated." ELSE "Contact added."
             r == add_phone(b1[i].rec, args[2])
         IN  IF args[2] = <<>> THEN Returned(b1, message)
             ELSE IF r.exc # "none" THEN Raised(b1, r)
             ELSE Returned(SetRec(b1, i, r.rec), message)

add_contact(args, b) == input_error(add_contact_body(args, b))

\* change_contact looking the name up with book.data[name], which raises KeyError.
change_contact_lookup(args, b) ==
    IF UnpackExact(args, 3).exc # "none" THEN Raised(b, UnpackExact(args, 3))
    ELSE LET i == find(b, args[1])
             r == edit_phone(b[i].rec, args[2], args[3])
         IN  IF i = 0 THEN Raised(b, Raise("KeyError", Str(args[1])))
             ELSE IF r.exc # "none" THEN Raised(SetRec(b, i, r.rec), r)
             ELSE Returned(SetRec(b, i, r.rec), "Phone updated.")

\* change_contact, lines 138-143
change_contact_body(args, b) ==
    IF UnpackExact(args, 3).exc # "none" THEN Raised(b, UnpackExact(args, 3))
    ELSE LET i == find(b, args[1])
             r == edit_phone(b[i].rec, args[2], args[3])
         IN  IF i = 0 THEN Returned(b, "Contact not found.")
             ELSE IF r.exc # "none" THEN Raised(SetRec(b, i, r.rec), r)
             ELSE Returned(SetRec(b, i, r.rec), "Phone updated.")

change_contact(args, b) == input_error(change_contact_body(args, b))

\* phone, lines 147-151: the Record found is returned and printed through __str__.
phone_body(args, b) ==
    IF UnpackExact(args, 1).exc # "none" THEN Raised(b, UnpackExact(args, 1))
    ELSE IF find(b, args[1]) = 0 THEN Returned(b, "Contact not found.")
    ELSE Returned(b, RecordStr(b[find(b, args[1])].rec))

phone(args, b) == input_error(phone_body(args, b))

\* all_contacts, line 155
all_contacts(b) == input_error(Returned(b, BookStr(b)))

\* add_birthday, lines 159-164
add_birthday_body(args, b) ==
    IF UnpackExact(args, 2).exc # "none" THEN Raised(b, UnpackExact(args, 2))
    ELSE LET i == find(b, args[1])
             r == record_add_birthday(b[i].rec, args[2])
         IN  IF i = 0 THEN Returned(b, "Contact not found.")
             ELSE IF r.exc # "none" THEN Raised(SetRec(b, i, r.rec), r)
             ELSE Returned(SetRec(b, i, r.rec), "Birthday added.")

add_birthday(args, b) == input_error(add_birthday_body(args, b))

\* show_birthday, lines 168-172
show_birthday_body(args, b) ==
    IF UnpackExact(args, 1).exc # "none" THEN Raised(b, UnpackExact(args, 1))
    ELSE LET i == find(b, args[1])
         IN  IF i # 0 /\ b[i].rec.birthday # <<>>
             THEN Returned(b, Str(b[i].rec.name) \o "'s birthday is on "
                                  \o BirthdayStr(b[i].rec))
             ELSE Returned(b, "Contact or birthday not found.")

show_birthday(args, b) == input_error(show_birthday_body(args, b))

DefaultDays == 7

\* birthdays, lines 176-177, with now the value of datetime.now().date()
birthdays_body(b, now) ==
    LET upcoming == get_upcoming_birthdays(b, DefaultDays, now)
    IN  IF upcoming.exc # "none" THEN Raised(b, upcoming)
        ELSE IF upcoming.val # <<>>
             THEN Returned(b, Join([i \in 1..Len(upcoming.val) |->
                                       DateStr(upcoming.val[i])], "\n"))
             ELSE Returned(b, "No upcoming birthdays.")

birthdays(b, now) == input_error(birthdays_body(b, now))

(***************************************************************************)
(* Inputs                                                                  *)
(***************************************************************************)

Rep(c, n) == [i \in 1..n |-> c]

Al == <<"A", "l">>

Bo == <<"B", "o">>

Names == {Al, Bo}

P1 == Rep("1", PhoneLen)

P2 == Rep("2", PhoneLen)

\* "111111111" followed by SUPERSCRIPT TWO: ten characters, isdigit() is true.
PSuper == Rep("1", PhoneLen - 1) \o <<"U+00B2">>

PShort == Rep("1", PhoneLen - 1)

PLong == Rep("1", PhoneLen + 1)

PAlpha == Rep("1", PhoneLen - 1) \o <<"a">>

PhoneInputs == {P1, P2, PShort, PLong, PAlpha}

\* 15.06.1990
D1 == <<"1", "5", ".", "0", "6", ".", "1", "9", "9", "0">>

\* 29.02.2024
D2 == <<"2", "9", ".", "0", "2", ".", "2", "0", "2", "4">>

\* 31.02.2020: no such day
DNoDay == <<"3", "1", ".", "0", "2", ".", "2", "0", "2", "0">>

\* 1990-06-15: ten characters in another format
DIso == <<"1", "9", "9", "0", "-", "0", "6", "-", "1", "5">>

\* 1.1.2000: too short
DShort == <<"1", ".", "1", ".", "2", "0", "0", "0">>

DateInputs == {D1, DNoDay, DIso, DShort}

AddArgs ==
    {<<>>, <<Al>>, <<Al, P1, Al>>, <<Bo, <<>>, Al>>}
        \cup {<<n, p>> : n \in Names, p \in PhoneInputs}

ChangeArgs ==
    {<<>>, <<Al, P1>>, <<Al, P1, P2, Al>>}
        \cup {<<n, o, p>> : n \in Names, o \in {P1, P2}, p \in {P1, P2, PShort}}

NameArgs == {<<>>, <<Al, Al>>} \cup {<<n>> : n \in Names}

BirthdayArgs ==
    {<<>>, <<Al>>, <<Al, D1, Al>>} \cup {<<n, d>> : n \in Names, d \in DateInputs}

(***************************************************************************)
(* The address book under its operations: calls of add_record and delete   *)
(* and of the command handlers, in any order.                              *)
(***************************************************************************)

\* Phone objects the book may hold in the model, over all records.
MaxPhones == 2

RECURSIVE TotalPhones(_)
TotalPhones(b) ==
    IF b = <<>> THEN 0 ELSE Len(b[1].rec.phones) + TotalPhones(Tail(b))

NoOp == [name |-> "", args |-> <<>>]

Init ==
    /\ book = <<>>
    /\ prev = <<>>
    /\ op = NoOp
    /\ out = ""
    /\ pc = "prompt"
    /\ today = Date(2025, 6, 10)

\* The operation name(args) took the book to b and returned (or raised) text.
Step(name, args, b, text) ==
    /\ TotalPhones(b) <= MaxPhones
    /\ book' = b
    /\ prev' = book
    /\ op' = [name |-> name, args |-> args]
    /\ out' = text
    /\ UNCHANGED pc

\* A handler's outcome r as the step of the operation name(args).
Handled(name, args, r) ==
    \E h \in {r} : h.exc = "none" /\ Step(name, args, h.book, h.out)

\* book.add_record(Record(name))
CallAddRecord ==
    \E n \in Names :
        /\ Step("add_record", <<n>>, add_record(book, Record(n)), "")
        /\ UNCHANGED today

\* book.delete(name)
CallDelete ==
    \E n \in Names :
        /\ Step("delete", <<n>>, delete(book, n), "")
        /\ UNCHANGED today

AddContact ==
    \E args \in AddArgs :
        /\ Handled("add", args, add_contact(args, book))
        /\ UNCHANGED today

ChangeContact ==
    \E args \in ChangeArgs :
        /\ Handled("change", args, change_contact(args, book))
        /\ UNCHANGED today

PhoneCommand ==
    \E args \in NameArgs :
        /\ Handled("phone", args, phone(args, book))
        /\ UNCHANGED today

AllContacts ==
    /\ Handled("all", <<>>, all_contacts(book))
    /\ UNCHANGED today

AddBirthday ==
    \E args \in BirthdayArgs :
        /\ Handled("add-birthday", args, add_birthday(args, book))
        /\ UNCHANGED today

ShowBirthday ==
    \E args \in NameArgs :
        /\ Handled("show-birthday", args, show_birthday(args, book))
        /\ UNCHANGED today

\* datetime.now().date() is the day the session runs on.
Birthdays ==
    /\ Handled("birthdays", <<>>, birthdays(book, today))
    /\ UNCHANGED today

Next ==
    \/ CallAddRecord
    \/ CallDelete
    \/ AddContact
    \/ ChangeContact
    \/ PhoneCommand
    \/ AllContacts
    \/ AddBirthday
    \/ ShowBirthday
    \/ Birthdays

Spec == Init /\ [][Next]_vars

(***************************************************************************)
(* One Record under its own methods (SpecRecord): the book holds the       *)
(* Record of Al, on which add_phone, remove_phone, edit_phone and          *)
(* add_birthday are called directly.  out is the message of the exception  *)
(* the call raised, "" when it returned.                                   *)
(***************************************************************************)

\* Phones the Record may hold in SpecRecord.
MaxRecordPhones == 3

RecordPhoneInputs == {P1, P2, PSuper, PShort, PAlpha}

InitRecord ==
    /\ book = add_record(<<>>, Record(Al))
    /\ prev = add_record(<<>>, Record(Al))
    /\ op = NoOp
    /\ out = ""
    /\ pc = "prompt"
    /\ today = Date(2025, 6, 10)

\* The method call name(args) left the Record as r.rec and raised r.msg (or nothing).
RecordStep(name, args, r) ==
    /\ Len(r.rec.phones) <= MaxRecordPhones
    /\ book' = SetRec(book, 1, r.rec)
    /\ prev' = book
    /\ op' = [name |-> name, args |-> args]
    /\ out' = r.msg
    /\ UNCHANGED <<pc, today>>

CallAddPhone ==
    \E p \in RecordPhoneInputs :
        RecordStep("add_phone", <<p>>, add_phone(book[1].rec, p))

CallRemovePhone ==
    \E p \in {P1, P2, PShort} :
        RecordStep("remove_phone", <<p>>, Done(remove_phone(book[1].rec, p)))

CallEditPhone ==
    \E o \in {P1, P2, PShort}, p \in RecordPhoneInputs :
        RecordStep("edit_phone", <<o, p>>, edit_phone(book[1].rec, o, p))

CallRecordAddBirthday ==
    \E d \in DateInputs :
        RecordStep("add_birthday", <<d>>, record_add_birthday(book[1].rec, d))

NextRecord ==
    \/ CallAddPhone
    \/ CallRemovePhone
    \/ CallEditPhone
    \/ CallRecordAddBirthday

SpecRecord == InitRecord /\ [][NextRecord]_vars

(***************************************************************************)
(* Vocabulary of the properties                                            *)
(***************************************************************************)

Keys(b) == {b[i].key : i \in 1..Len(b)}

\* The Record stored under key k (k a key of b).
RecOf(b, k) == b[CHOOSE i \in 1..Len(b) : b[i].key = k].rec

\* Ten characters, each one of 0..9.
TenAsciiDigits(s) == Len(s) = 10 /\ \A i \in 1..Len(s) : s[i] \in AsciiDigits

Occurs(x, s) == \E i \in 1..Len(s) : s[i] = x

\* t is s with its first x taken out and y put at the end.
FirstOutLastIn(s, t, x, y) ==
    \E i \in 1..Len(s) :
        /\ s[i] = x
        /\ \A j \in 1..(i - 1) : s[j] # x
        /\ Len(t) = Len(s)
        /\ \A k \in 1..Len(s) :
               t[k] = IF k < i THEN s[k] ELSE IF k < Len(s) THEN s[k + 1] ELSE y

(***************************************************************************)
(* C4 (SpecRecord).  edit_phone(old, new) with new a valid 10-digit phone: *)
(* when old is the value of a stored phone, the phone list becomes the     *)
(* former list with the first old removed and new appended (a record       *)
(* holding only old ends up holding exactly new) and nothing is raised;    *)
(* when old matches no stored phone, the call fails with "Phone number is  *)
(* incorrect" and the phone list is unchanged.                             *)
(***************************************************************************)
C4_EditPhone ==
    (op.name = "edit_phone" /\ TenAsciiDigits(op.args[2])) =>
        IF Occurs(op.args[1], prev[1].rec.phones)
        THEN /\ out = ""
             /\ FirstOutLastIn(prev[1].rec.phones, book[1].rec.phones,
                               op.args[1], op.args[2])
             /\ (prev[1].rec.phones = <<op.args[1]>> =>
                     book[1].rec.phones = <<op.args[2]>>)
        ELSE /\ out = "Phone number is incorrect"
             /\ book[1].rec.phones = prev[1].rec.phones

\* edit_phone(P1, P2) on the phones P1, P2, P1 left P2, P1, P2.
C4_Witness ==
    /\ op = [name |-> "edit_phone", args |-> <<P1, P2>>]
    /\ prev[1].rec.phones = <<P1, P2, P1>>
    /\ book[1].rec.phones = <<P2, P1, P2>>

(***************************************************************************)
(* Properties of the command handlers (Spec)                               *)
(***************************************************************************)

\* The handlers that take arguments, and the number of tokens each unpacks.
ArgHandlers == {"add", "change", "phone", "add-birthday", "show-birthday"}

Required(name) ==
    CASE name = "add" -> 2 [] name = "change" -> 3 [] name = "phone" -> 1
      [] name = "add-birthday" -> 2 [] name = "show-birthday" -> 1

NeedsContact == {"change", "phone", "add-birthday", "show-birthday"}

(***************************************************************************)
(* C2.  A handler that takes arguments, called with fewer tokens than it   *)
(* requires, returns exactly "Give me phone and name please" and leaves    *)
(* the Collection unchanged.                                               *)
(***************************************************************************)
C2_MissingArguments ==
    (op.name \in ArgHandlers /\ Len(op.args) < Required(op.name)) =>
        /\ out = "Give me phone and name please"
        /\ book = prev

(***************************************************************************)
(* C3, as claimed.  A handler that requires an existing contact, called    *)
(* with a name that is not a key of the Collection, returns exactly        *)
(* "Enter user name".                                                      *)
(***************************************************************************)
C3_EnterUserName ==
    (/\ op.name \in NeedsContact
     /\ Len(op.args) = Required(op.name)
     /\ op.args[1] \notin Keys(prev)) =>
        out = "Enter user name"

(***************************************************************************)
(* C3, amended.  change, phone and add-birthday, called with the number of *)
(* tokens they take and a name that is not a key of the Collection, return *)
(* exactly "Contact not found."; show-birthday returns exactly             *)
(* "Contact or birthday not found."; the Collection is unchanged.          *)
(***************************************************************************)
C3_ContactNotFound ==
    (/\ op.name \in NeedsContact
     /\ Len(op.args) = Required(op.name)
     /\ op.args[1] \notin Keys(prev)) =>
        /\ out = IF op.name = "show-birthday"
                 THEN "Contact or birthday not found."
                 ELSE "Contact not found."
        /\ book = prev

\* change Bo 1111111111 2222222222 while only Al is in the book.
C3_Witness ==
    /\ op = [name |-> "change", args |-> <<Bo, P1, P2>>]
    /\ Keys(prev) = {Al}
    /\ out = "Contact not found."

\* What C7 says add(name, phone) does, read off prev, op, book and out.
AddEffect ==
    LET name == op.args[1]
        was == name \in Keys(prev)
    IN  /\ Keys(book) = Keys(prev) \cup {name}
        /\ Cardinality({i \in 1..Len(book) : book[i].key = name}) = 1
        /\ (out = "Contact added.") <=> ~was
        /\ (out = "Contact updated.") <=> was
        /\ RecOf(book, name).phones =
               (IF was THEN RecOf(prev, name).phones ELSE <<>>) \o <<op.args[2]>>
        /\ RecOf(book, name).birthday =
               (IF was THEN RecOf(prev, name).birthday ELSE <<>>)
        /\ \A k \in Keys(prev) \ {name} : RecOf(book, k) = RecOf(prev, k)

(***************************************************************************)
(* C7, as claimed.  add(name, phone) creates a Record for name if the      *)
(* Collection has none and otherwise reuses the existing one, always       *)
(* appends the phone to that Record's list (existing phones and birthday   *)
(* kept), and returns "Contact added." exactly when the name was absent    *)
(* and "Contact updated." exactly when it was present.                     *)
(***************************************************************************)
C7_AddAlways == (op.name = "add" /\ Len(op.args) >= 2) => AddEffect

(***************************************************************************)
(* C7, amended.  The same, for a phone of exactly ten decimal digits.      *)
(***************************************************************************)
C7_AddValidPhone ==
    (op.name = "add" /\ Len(op.args) >= 2 /\ TenAsciiDigits(op.args[2])) => AddEffect

\* add Al 2222222222 on Al with phone 1111111111 and a birthday.
C7_Witness ==
    /\ op = [name |-> "add", args |-> <<Al, P2>>]
    /\ Al \in Keys(prev)
    /\ RecOf(prev, Al).phones = <<P1>>
    /\ RecOf(prev, Al).birthday # <<>>
    /\ out = "Contact updated."
    /\ RecOf(book, Al).phones = <<P1, P2>>

(***************************************************************************)
(* C9.  Every key of the Collection maps to a Record whose Name equals     *)
(* that key, no key occurs twice, and a Record that stays in the           *)
(* Collection keeps its Name.                                              *)
(***************************************************************************)
C9_NameIsKey ==
    /\ \A i \in 1..Len(book) : book[i].rec.name = book[i].key
    /\ \A i, j \in 1..Len(book) : book[i].key = book[j].key => i = j
    /\ \A k \in Keys(prev) \cap Keys(book) : RecOf(book, k).name = RecOf(prev, k).name

\* add_record(Record(Al)) over an Al that had a phone, with Bo in the book too.
C9_Witness ==
    /\ op = [name |-> "add_record", args |-> <<Al>>]
    /\ Keys(prev) = {Al, Bo}
    /\ RecOf(prev, Al).phones # <<>>
    /\ Keys(book) = {Al, Bo}
    /\ RecOf(book, Al) = Record(Al)

\* The one partial failure C10 allows: change(name, old, new) with old present
\* and new invalid leaves old removed.
ChangeArtifact ==
    /\ op.name = "change"
    /\ Len(op.args) = 3
    /\ out = "Phone number must be 10 digits long!"
    /\ op.args[1] \in Keys(prev)
    /\ Occurs(op.args[2], RecOf(prev, op.args[1]).phones)
    /\ Keys(book) = Keys(prev)
    /\ \A k \in Keys(prev) \ {op.args[1]} : RecOf(book, k) = RecOf(prev, k)
    /\ RecOf(book, op.args[1]).birthday = RecOf(prev, op.args[1]).birthday
    /\ FirstOutLastIn(RecOf(prev, op.args[1]).phones,
                      RecOf(book, op.args[1]).phones \o <<op.args[2]>>,
                      op.args[2], op.args[2])

SuccessMessages ==
    {"Contact added.", "Contact updated.", "Phone updated.", "Birthday added."}

(***************************************************************************)
(* C10.  Whenever add, change or add-birthday returns an error message     *)
(* instead of its success message, the Collection is exactly as it was     *)
(* before the command, except that change(name, old, new) with old present *)
(* and new invalid leaves old removed; in particular add with an invalid   *)
(* phone for a new name leaves no Record behind.                           *)
(***************************************************************************)
C10_NoPartialFailure ==
    (op.name \in {"add", "change", "add-birthday"} /\ out \notin SuccessMessages) =>
        (book = prev \/ ChangeArtifact)

(***************************************************************************)
(* main: the interactive loop (SpecMain)                                   *)
(***************************************************************************)

CAdd == <<"a", "d", "d">>

CChange == <<"c", "h", "a", "n", "g", "e">>

CPhone == <<"p", "h", "o", "n", "e">>

CAll == <<"a", "l", "l">>

CAddBirthday == <<"a", "d", "d", "-", "b", "i", "r", "t", "h", "d", "a", "y">>

CShowBirthday == <<"s", "h", "o", "w", "-", "b", "i", "r", "t", "h", "d", "a", "y">>

CBirthdays == <<"b", "i", "r", "t", "h", "d", "a", "y", "s">>

CClose == <<"c", "l", "o", "s", "e">>

CExit == <<"e", "x", "i", "t">>

CHello == <<"h", "e", "l", "l", "o">>

\* parse_input: split, then the first token stripped and lower-cased.  The
\* starred assignment needs at least one token.
parse_input(user_input) ==
    LET tokens == split(user_input)
    IN  IF tokens = <<>>
        THEN Raise("ValueError", "not enough values to unpack (expected at least 1, got 0)")
        ELSE Ok([command |-> Lower(tokens[1]), args |-> Tail(tokens)])

Printed(r) == [book |-> r.book, out |-> r.out,
               pc |-> IF r.exc = "none" THEN "prompt" ELSE "crashed"]

\* The if/elif chain of main, lines 186-216, on a parsed command: the book it
\* leaves, what it prints, and where main is afterwards ("crashed": an
\* exception left the handler and ended main with a traceback).
dispatch(command, args, b, now) ==
    CASE command \in {CClose, CExit} ->
             [book |-> b, out |-> "Good bye!", pc |-> "done"]
      [] command = CHello ->
             [book |-> b, out |-> "How can I help you?", pc |-> "prompt"]
      [] command = CAdd -> Printed(add_contact(args, b))
      [] command = CChange -> Printed(change_contact(args, b))
      [] command = CPhone -> Printed(phone(args, b))
      [] command = CAll -> Printed(all_contacts(b))
      [] command = CAddBirthday -> Printed(add_birthday(args, b))
      [] command = CShowBirthday -> Printed(show_birthday(args, b))
      [] command = CBirthdays -> Printed(birthdays(b, now))
      [] OTHER -> [book |-> b, out |-> "Invalid command.", pc |-> "prompt"]

RECURSIVE Line(_)
\* The tokens joined by single spaces.
Line(tokens) ==
    IF tokens = <<>> THEN <<>>
    ELSE IF Len(tokens) = 1 THEN tokens[1]
    ELSE tokens[1] \o <<" ">> \o Line(Tail(tokens))

\* The lines typed at the prompt.
Lines ==
    {<<>>, <<" ">>, <<" ", "\t", " ">>}
        \cup {Line(<<c>>) : c \in {CHello, CAll, CBirthdays, CClose, CExit, CAdd, CChange,
                                   CPhone, CAddBirthday, CShowBirthday, <<"q">>}}
        \cup {<<"E", "x", "i", "t">>, <<" ">> \o CAll \o <<"\t">>, Line(<<CAll, Al>>)}
        \cup {Line(<<c, Al>>) : c \in {CAdd, CPhone, CShowBirthday}}
        \cup {Line(<<CAdd, Al, p>>) : p \in {P1, PSuper, PShort}}
        \cup {<<"A", "D", "D", " ", " ">> \o Line(<<Bo, P1, Al>>)}
        \cup {Line(<<CChange, Al, P1, p>>) : p \in {P2, PShort}}
        \cup {Line(<<CChange, Bo, P1, P2>>), Line(<<CChange, Al, P1>>)}
        \cup {Line(<<CAddBirthday, Al, d>>) : d \in {D2, DNoDay}}
        \cup {Line(<<CAddBirthday, Al>>)}

\* main after the turn on user_input that left book b, printed text and is at p.
MainStep(user_input, b, text, p) ==
    /\ TotalPhones(b) <= MaxPhones
    /\ book' = b
    /\ prev' = book
    /\ op' = [name |-> "input", args |-> <<user_input>>]
    /\ out' = text
    /\ pc' = p
    /\ UNCHANGED today

\* The line has no token: parse_input raises and main ends with the traceback.
MainNoToken ==
    \E l \in Lines :
        \E parsed \in {parse_input(l)} :
            /\ pc = "prompt"
            /\ parsed.exc # "none"
            /\ MainStep(l, book, parsed.msg, "crashed")

\* close or exit: main says good bye, saves the book and returns.
MainExit ==
    \E l \in Lines :
        \E parsed \in {parse_input(l)} :
            /\ pc = "prompt"
            /\ parsed.exc = "none"
            /\ parsed.val.command \in {CClose, CExit}
            /\ \E r \in {dispatch(parsed.val.command, parsed.val.args, book, today)} :
                   MainStep(l, r.book, r.out, r.pc)

\* Any other line: a command is run, or "Invalid command." is printed.
MainCommand ==
    \E l \in Lines :
        \E parsed \in {parse_input(l)} :
            /\ pc = "prompt"
            /\ parsed.exc = "none"
            /\ parsed.val.command \notin {CClose, CExit}
            /\ \E r \in {dispatch(parsed.val.command, parsed.val.args, book, today)} :
                   MainStep(l, r.book, r.out, r.pc)

NextMain ==
    \/ MainNoToken
    \/ MainExit
    \/ MainCommand

SpecMain == Init /\ [][NextMain]_vars

(***************************************************************************)
(* C1 (SpecMain).  For every line typed at the prompt, an empty or         *)
(* whitespace-only line included, main does not terminate with an error:   *)
(* it prints a result and prompts again, and the session ends only when    *)
(* the command keyword is close or exit.                                   *)
(***************************************************************************)
C1_LoopNeverFails ==
    /\ pc # "crashed"
    /\ pc = "done" =>
           /\ split(op.args[1]) # <<>>
           /\ Lower(split(op.args[1])[1]) \in {CClose, CExit}

(***************************************************************************)
(* C8 (SpecMain).  After any sequence of commands every Phone stored in    *)
(* every Record is a string of exactly 10 characters, each an ASCII        *)
(* decimal digit: Phone construction on any other string fails and stores  *)
(* nothing.                                                                *)
(***************************************************************************)
C8_StoredPhonesTenAsciiDigits ==
    \A i \in 1..Len(book) :
        \A j \in 1..Len(book[i].rec.phones) : TenAsciiDigits(book[i].rec.phones[j])

(***************************************************************************)
(* The date functions of AddressBook (SpecDates): records with birthdays   *)
(* are put in the book, the clock moves, and find_next_weekday,            *)
(* adjust_for_weekend and get_upcoming_birthdays are called; out is the    *)
(* outcome of the call, [exc, msg, val].                                   *)
(***************************************************************************)

\* 01.01.2000
D3 == <<"0", "1", ".", "0", "1", ".", "2", "0", "0", "0">>

BirthdayInputs == {D1, D2, D3}

DateRange(a, b) == {FromOrdinal(n) : n \in ToOrdinal(a)..ToOrdinal(b)}

\* The days the clock shows: the turn of the year 2024/25, the leap day of
\* 2024, and a week of June 2025.
Todays ==
    DateRange(Date(2024, 12, 26), Date(2025, 1, 2))
        \cup DateRange(Date(2024, 2, 26), Date(2024, 3, 1))
        \cup DateRange(Date(2025, 6, 9), Date(2025, 6, 15))

\* The largest window get_upcoming_birthdays is called with, besides a whole year.
MaxDays == 7

DaysInputs == (0..MaxDays) \cup {366}

Setup == [name |-> "setup", args |-> <<>>]

InitDates ==
    /\ book = <<>>
    /\ prev = <<>>
    /\ op = Setup
    /\ out = Ok(<<>>)
    /\ pc = "prompt"
    /\ today = Date(2024, 12, 26)

\* A contact is added and given a birthday.
DatesAddBirthday ==
    \E n \in Names, d \in BirthdayInputs :
        /\ book' = add_birthday(<<n, d>>, add_record(book, Record(n))).book
        /\ prev' = book
        /\ op' = Setup
        /\ out' = Ok(<<>>)
        /\ UNCHANGED <<pc, today>>

\* A contact without a birthday is added.
DatesAddRecord ==
    \E n \in Names :
        /\ book' = add_record(book, Record(n))
        /\ prev' = book
        /\ op' = Setup
        /\ out' = Ok(<<>>)
        /\ UNCHANGED <<pc, today>>

\* datetime.now().date() moves on.
ClockMoves ==
    \E t \in Todays :
        /\ \/ ToOrdinal(t) = ToOrdinal(today) + 1
           \/ t = Date(2024, 2, 26) /\ today = Date(2025, 1, 2)
           \/ t = Date(2025, 6, 9) /\ today = Date(2024, 3, 1)
           \/ t = Date(2024, 12, 26) /\ today = Date(2025, 6, 15)
        /\ today' = t
        /\ prev' = book
        /\ op' = Setup
        /\ out' = Ok(<<>>)
        /\ UNCHANGED <<book, pc>>

\* The call name(args) returned or raised r.
DateCall(name, args, r) ==
    /\ prev' = book
    /\ op' = [name |-> name, args |-> args]
    /\ out' = r
    /\ UNCHANGED <<book, pc, today>>

CallFindNextWeekday ==
    \E w \in 0..6 : DateCall("find_next_weekday", <<w>>, find_next_weekday(today, w))

CallAdjustForWeekend == DateCall("adjust_for_weekend", <<>>, adjust_for_weekend(today))

CallGetUpcomingBirthdays ==
    \E days \in DaysInputs :
        DateCall("get_upcoming_birthdays", <<days>>,
                 get_upcoming_birthdays(book, days, today))

NextDates ==
    \/ DatesAddBirthday
    \/ DatesAddRecord
    \/ ClockMoves
    \/ CallFindNextWeekday
    \/ CallAdjustForWeekend
    \/ CallGetUpcomingBirthdays

SpecDates == InitDates /\ [][NextDates]_vars

NextOccurrence(bday, now) ==
    LET falls(y) == bday.day <= DaysInMonth(y, bday.month)
        at(y) == Date(y, bday.month, bday.day)
        y0 == CHOOSE y \in now.year..(now.year + 8) :
                  /\ falls(y) /\ ~DateLess(at(y), now)
                  /\ \A z \in now.year..(y - 1) : ~(falls(z) /\ ~DateLess(at(z), now))
    IN  at(y0)

\* d itself on Monday..Friday, the Monday after a Saturday or Sunday.
OffWeekend(d) ==
    IF Weekday(d) = 5 THEN FromOrdinal(ToOrdinal(d) + 2)
    ELSE IF Weekday(d) = 6 THEN FromOrdinal(ToOrdinal(d) + 1)
    ELSE d

RECURSIVE ExpectedUpcoming(_, _, _)
\* What C5 says get_upcoming_birthdays(days) returns for book b on day now.
ExpectedUpcoming(b, now, days) ==
    IF b = <<>> THEN <<>>
    ELSE IF b[1].rec.birthday = <<>> THEN ExpectedUpcoming(Tail(b), now, days)
    ELSE IF DaysBetween(NextOccurrence(b[1].rec.birthday[1], now), now) \in 0..days
         THEN <<OffWeekend(NextOccurrence(b[1].rec.birthday[1], now))>>
                  \o ExpectedUpcoming(Tail(b), now, days)
         ELSE ExpectedUpcoming(Tail(b), now, days)

(***************************************************************************)
(* C5 (SpecDates).  For a Collection whose birthdays are all valid         *)
(* calendar dates, any today and any days >= 0, get_upcoming_birthdays     *)
(* completes and returns, in the Collection's iteration order, one date    *)
(* per Record whose birthday's next occurrence d on or after today has     *)
(* 0 <= d - today <= days: d itself on Monday..Friday, the following       *)
(* Monday when d is a Saturday or Sunday; the window test uses d.          *)
(***************************************************************************)
C5_UpcomingBirthdays ==
    op.name = "get_upcoming_birthdays" =>
        /\ out.exc = "none"
        /\ out.val = ExpectedUpcoming(book, today, op.args[1])

=============================================================================
